---- MODULE Spec2Model ----
(***************************************************************************)
(* PushBackIterator<I> and LookaheadIterator<'_, I> of src/src/lib.rs.     *)
(*                                                                         *)
(* The VecDeque `buffer` is a sequence whose index 1 is the deque's front  *)
(* and whose last index is the deque's back.  The wrapped iterator `inner` *)
(* is the sequence of the items it still holds, its next item first.       *)
(* An Option is a sequence of length 0 (None) or 1 (Some(v)).              *)
(*                                                                         *)
(* An item is a record [val, tag]: val is the value the program sees, tag  *)
(* says where the item came from: <<"up", k>> is the k-th item of the      *)
(* upstream source, <<"push", s>> the item of the s-th push_back call.     *)
(* The methods are generic in the item type and never look inside an item. *)
(***************************************************************************)
EXTENDS Integers, Sequences, FiniteSets, TLC

VARIABLES
    buffer,          \* PushBackIterator::buffer, front first
    inner,           \* PushBackIterator::inner, the items it still holds
    kind,            \* which size_hint the upstream iterator reports
    panicked,        \* the last call aborted on an arithmetic overflow (a build
                     \* with overflow checks panics, one without them wraps)
    alive,           \* FALSE once count(self) or last(self) consumed the adapter
    borrowed,        \* a LookaheadIterator holds the &mut borrow
    pos,             \* LookaheadIterator::pos
    op,              \* the last call: [name, arg]
    ret,             \* what the last call returned
    pre_buffer,      \* buffer before the last call
    pre_inner,       \* inner before the last call
    source,          \* the upstream sequence the adapter was built from
    pushes,          \* number of push_back calls so far
    up_out,          \* how many items of the upstream source next() has returned
    plain,           \* TRUE while no nth() or next_back() has been called
    exhausted,       \* next() returned None on an empty buffer, and only
                     \* push_back, next and non-consuming calls followed
    since,           \* the items pushed back since then and not yet returned
    view_buffer,     \* buffer when the live lookahead view was created
    view_inner,      \* inner when the live lookahead view was created
    taken,           \* what the live lookahead view has returned, in order
    returned,        \* tags of the items next, nth and next_back have returned
    twice            \* one of them returned an item that had been returned before

vars == <<buffer, inner, kind, panicked, alive, borrowed, pos, op, ret,
          pre_buffer, pre_inner, source, pushes, up_out, plain, exhausted,
          since, view_buffer, view_inner, taken, returned, twice>>

---------------------------------------------------------------------------
(* Bounds of the model *)

\* longest upstream source
MaxUp == 2
\* number of push_back calls in a run
MaxPush == 2
\* largest index given to peek_nth and nth
MaxN == 3
\* largest position a lookahead view is stepped to
MaxPos == 3
\* width of usize in bits
UsizeBits == 5

Val == {1, 2}

UsizeMax == 2^UsizeBits - 1

None == <<>>
Some(v) == <<v>>

\* "exact": the upstream reports (len, Some(len)), as vec::IntoIter does;
\* "default": it reports (0, None), the default of Iterator::size_hint
Kinds == {"exact", "default"}

Item(v, t) == [val |-> v, tag |-> t]

IsUp(it) == it.tag[1] = "up"

IsPush(it) == it.tag[1] = "push"

\* the upstream sources: the k-th item has the value k, so that a pushed
\* value of Val may or may not equal the value of an upstream item
Sources == {[k \in 1..n |-> Item(k, <<"up", k>>)] : n \in 0..MaxUp}

---------------------------------------------------------------------------
(* The upstream iterator I, by the contracts of Iterator,                  *)
(* DoubleEndedIterator and ExactSizeIterator that the adapter relies on.   *)

\* I::next
inner_next(i) ==
    IF i = <<>> THEN [ret |-> None, inner |-> i]
    ELSE [ret |-> Some(Head(i)), inner |-> Tail(i)]

\* I::next_back
inner_next_back(i) ==
    IF i = <<>> THEN [ret |-> None, inner |-> i]
    ELSE [ret |-> Some(i[Len(i)]), inner |-> SubSeq(i, 1, Len(i) - 1)]

\* I::nth
inner_nth(i, n) ==
    IF n < Len(i) THEN [ret |-> Some(i[n + 1]), inner |-> SubSeq(i, n + 2, Len(i))]
    ELSE [ret |-> None, inner |-> <<>>]

\* I::count
inner_count(i) == Len(i)

\* I::last
inner_last(i) == IF i = <<>> THEN None ELSE Some(i[Len(i)])

\* I::len
inner_len(i) == Len(i)

\* I::size_hint: <<lower, upper>>, upper an Option
inner_size_hint(i, k) ==
    CASE k = "exact"   -> <<Len(i), Some(Len(i))>>
      [] k = "default" -> <<0, None>>

---------------------------------------------------------------------------
(* usize arithmetic *)

usize_overflows(a, b) == a + b > UsizeMax

usize_add(a, b) == (a + b) % (UsizeMax + 1)

---------------------------------------------------------------------------
(* impl PushBackIterator *)

\* mutant of push_back: the item goes to the front of the deque
push_back_front(b, x) == <<x>> \o b

\* VecDeque::push_back
push_back(b, x) == Append(b, x)

\* mutant of peek_fill: the pulled items go to the back of the deque
RECURSIVE peek_fill_push_back(_, _, _)
peek_fill_push_back(b, i, cnt) ==
    IF cnt = 0 THEN [ok |-> TRUE, buffer |-> b, inner |-> i]
    ELSE LET r == inner_next(i)
         IN  IF r.ret = None
             THEN [ok |-> FALSE, buffer |-> b, inner |-> r.inner]
             ELSE peek_fill_push_back(Append(b, r.ret[1]), r.inner, cnt - 1)

\* mutant of peek_fill: the upstream is read but not advanced
RECURSIVE peek_fill_no_advance(_, _, _)
peek_fill_no_advance(b, i, cnt) ==
    IF cnt = 0 THEN [ok |-> TRUE, buffer |-> b, inner |-> i]
    ELSE LET r == inner_next(i)
         IN  IF r.ret = None
             THEN [ok |-> FALSE, buffer |-> b, inner |-> r.inner]
             ELSE peek_fill_no_advance(<<r.ret[1]>> \o b, i, cnt - 1)

\* the loop of peek_nth: `cnt` times buffer.push_front(inner.next()?)
RECURSIVE peek_fill(_, _, _)
peek_fill(b, i, cnt) ==
    IF cnt = 0 THEN [ok |-> TRUE, buffer |-> b, inner |-> i]
    ELSE LET r == inner_next(i)
         IN  IF r.ret = None
             THEN [ok |-> FALSE, buffer |-> b, inner |-> r.inner]
             ELSE peek_fill(<<r.ret[1]>> \o b, r.inner, cnt - 1)

\* mutant of peek_nth: a failed peek puts the buffer back as it was
peek_nth_rollback(b, i, n) ==
    LET f == IF n >= Len(b)
             THEN peek_fill(b, i, (n - Len(b)) + 1)
             ELSE [ok |-> TRUE, buffer |-> b, inner |-> i]
    IN  IF f.ok
        THEN [ret |-> Some(f.buffer[(Len(f.buffer) - n - 1) + 1]),
              buffer |-> f.buffer, inner |-> f.inner]
        ELSE [ret |-> None, buffer |-> b, inner |-> f.inner]

\* mutant of peek_nth: it pulls one item more than the shortfall
peek_nth_one_more(b, i, n) ==
    LET f == IF n >= Len(b)
             THEN peek_fill(b, i, (n - Len(b)) + 2)
             ELSE [ok |-> TRUE, buffer |-> b, inner |-> i]
    IN  IF f.ok
        THEN [ret |-> Some(f.buffer[(Len(f.buffer) - n - 1) + 1]),
              buffer |-> f.buffer, inner |-> f.inner]
        ELSE [ret |-> None, buffer |-> f.buffer, inner |-> f.inner]

\* mutant of peek_nth: it pulls n+1 items whatever the buffer already holds
peek_nth_refill(b, i, n) ==
    LET f == peek_fill(b, i, n + 1)
    IN  IF f.ok
        THEN [ret |-> Some(f.buffer[(Len(f.buffer) - n - 1) + 1]),
              buffer |-> f.buffer, inner |-> f.inner]
        ELSE [ret |-> None, buffer |-> f.buffer, inner |-> f.inner]

peek_nth(b, i, n) ==
    LET f == IF n >= Len(b)
             THEN peek_fill(b, i, (n - Len(b)) + 1)
             ELSE [ok |-> TRUE, buffer |-> b, inner |-> i]
    IN  IF f.ok
        THEN [ret |-> Some(f.buffer[(Len(f.buffer) - n - 1) + 1]),
              buffer |-> f.buffer, inner |-> f.inner]
        ELSE [ret |-> None, buffer |-> f.buffer, inner |-> f.inner]

peek(b, i) == peek_nth(b, i, 0)

---------------------------------------------------------------------------
(* impl Iterator for PushBackIterator *)

\* mutant of next: the buffer is popped at its front
next_pop_front(b, i) ==
    IF b # <<>>
    THEN [ret |-> Some(Head(b)), buffer |-> Tail(b), inner |-> i]
    ELSE LET r == inner_next(i)
         IN  [ret |-> r.ret, buffer |-> b, inner |-> r.inner]

next(b, i) ==
    IF b # <<>>
    THEN [ret |-> Some(b[Len(b)]), buffer |-> SubSeq(b, 1, Len(b) - 1), inner |-> i]
    ELSE LET r == inner_next(i)
         IN  [ret |-> r.ret, buffer |-> b, inner |-> r.inner]

\* mutant of size_hint: the buffer length is not added
size_hint_no_buffer(b, i, k) == inner_size_hint(i, k)

size_hint(b, i, k) ==
    LET h == inner_size_hint(i, k)
    IN  <<usize_add(h[1], Len(b)),
          IF h[2] = None THEN None ELSE Some(usize_add(h[2][1], Len(b)))>>

size_hint_overflows(b, i, k) ==
    LET h == inner_size_hint(i, k)
    IN  \/ usize_overflows(h[1], Len(b))
        \/ h[2] # None /\ usize_overflows(h[2][1], Len(b))

\* mutant of count: the buffered items are not counted
count_inner_only(b, i) == inner_count(i)

count(b, i) == usize_add(Len(b), inner_count(i))

count_overflows(b, i) == usize_overflows(Len(b), inner_count(i))

\* mutant of last: with the upstream exhausted, the last buffered item
last_of_all(b, i) ==
    IF i # <<>> THEN inner_last(i)
    ELSE IF b # <<>> THEN Some(Head(b)) ELSE None

last(b, i) == inner_last(i)

\* mutant of nth: the buffered items are not subtracted from n
nth_no_adjust(b, i, n) ==
    IF n < Len(b)
    THEN LET t == SubSeq(b, 1, Len(b) - n)
         IN  [ret |-> Some(t[Len(t)]), buffer |-> SubSeq(t, 1, Len(t) - 1), inner |-> i]
    ELSE LET r == inner_nth(i, n)
         IN  [ret |-> r.ret, buffer |-> <<>>, inner |-> r.inner]

nth(b, i, n) ==
    IF n < Len(b)
    THEN LET t == SubSeq(b, 1, Len(b) - n)
         IN  [ret |-> Some(t[Len(t)]), buffer |-> SubSeq(t, 1, Len(t) - 1), inner |-> i]
    ELSE LET r == inner_nth(i, n - Len(b))
         IN  [ret |-> r.ret, buffer |-> <<>>, inner |-> r.inner]

\* mutant of next_back: the buffer is tried before the upstream
next_back_buffer_first(b, i) ==
    IF b # <<>>
    THEN [ret |-> Some(Head(b)), buffer |-> Tail(b), inner |-> i]
    ELSE LET r == inner_next_back(i)
         IN  [ret |-> r.ret, buffer |-> b, inner |-> r.inner]

\* mutant of next_back: the buffer is popped at its back
next_back_pop_back(b, i) ==
    LET r == inner_next_back(i)
    IN  IF r.ret # None
        THEN [ret |-> r.ret, buffer |-> b, inner |-> r.inner]
        ELSE IF b # <<>>
             THEN [ret |-> Some(b[Len(b)]), buffer |-> SubSeq(b, 1, Len(b) - 1),
                   inner |-> r.inner]
             ELSE [ret |-> None, buffer |-> b, inner |-> r.inner]

\* impl DoubleEndedIterator for PushBackIterator
next_back(b, i) ==
    LET r == inner_next_back(i)
    IN  IF r.ret # None
        THEN [ret |-> r.ret, buffer |-> b, inner |-> r.inner]
        ELSE IF b # <<>>
             THEN [ret |-> Some(Head(b)), buffer |-> Tail(b), inner |-> r.inner]
             ELSE [ret |-> None, buffer |-> b, inner |-> r.inner]

\* mutant of len: the buffered items are not counted
len_inner_only(b, i) == inner_len(i)

\* impl ExactSizeIterator for PushBackIterator
len(b, i) == usize_add(Len(b), inner_len(i))

len_overflows(b, i) == usize_overflows(Len(b), inner_len(i))

\* mutant of LookaheadIterator_next: the position is counted from 1
LookaheadIterator_next_from_one(b, i, p) == peek_nth(b, i, p + 1)

\* mutant of LookaheadIterator_next: the view drops what it has stepped over
LookaheadIterator_next_trim(b, i, p) ==
    LET r == peek_nth(b, i, p)
    IN  [ret |-> r.ret, buffer |-> SubSeq(r.buffer, 1, Len(r.buffer) - p),
         inner |-> r.inner]

\* mutant of LookaheadIterator_next: the view pulls from the adapter
LookaheadIterator_next_consuming(b, i, p) == next(b, i)

\* impl Iterator for LookaheadIterator: peek_nth(self.pos), cloned
LookaheadIterator_next(b, i, p) == peek_nth(b, i, p)

---------------------------------------------------------------------------
(* The state machine: one action per method call *)

\* PushBackIterator::from(inner)
Init ==
    /\ source \in Sources
    /\ kind \in Kinds
    /\ buffer = <<>>
    /\ inner = source
    /\ panicked = FALSE
    /\ alive = TRUE
    /\ borrowed = FALSE
    /\ pos = 0
    /\ op = [name |-> "from", arg |-> 0]
    /\ ret = None
    /\ pre_buffer = <<>>
    /\ pre_inner = source
    /\ pushes = 0
    /\ up_out = 0
    /\ plain = TRUE
    /\ exhausted = FALSE
    /\ since = <<>>
    /\ view_buffer = <<>>
    /\ view_inner = <<>>
    /\ taken = <<>>
    /\ returned = {}
    /\ twice = FALSE

\* the adapter can be called: it was not consumed, it is not borrowed by a
\* view, and the program did not abort
Callable == alive /\ ~borrowed /\ ~panicked

\* the bookkeeping common to every call
Called(name, arg) ==
    /\ op' = [name |-> name, arg |-> arg]
    /\ pre_buffer' = buffer
    /\ pre_inner' = inner
    /\ UNCHANGED <<source, kind>>

\* a call that ends with the record r: [ret, buffer, inner]
Returns(r) ==
    /\ buffer' = r.buffer
    /\ inner' = r.inner
    /\ ret' = r.ret

Tags(q) == {q[j].tag : j \in 1..Len(q)}

\* a call that hands the item of the Option r, if any, to the caller
Handed(r) ==
    /\ returned' = returned \cup Tags(r)
    /\ twice' = (twice \/ Tags(r) \cap returned # {})

\* a call that hands no item to the caller
NoneHanded == UNCHANGED <<returned, twice>>

\* a call on the adapter itself: no lookahead view is left to speak of
NoView ==
    /\ view_buffer' = <<>>
    /\ view_inner' = <<>>
    /\ taken' = <<>>

CallPushBack ==
    /\ NoneHanded
    /\ Callable
    /\ pushes < MaxPush
    /\ \E x \in Val :
        LET it == Item(x, <<"push", pushes + 1>>)
        IN  /\ Called("push_back", it)
            /\ buffer' = push_back(buffer, it)
            /\ since' = IF exhausted THEN Append(since, it) ELSE since
    /\ pushes' = pushes + 1
    /\ ret' = None
    /\ NoView
    /\ UNCHANGED <<inner, panicked, alive, borrowed, pos, up_out, plain, exhausted>>

CallPeek ==
    /\ NoneHanded
    /\ Callable
    /\ Called("peek", 0)
    /\ Returns(peek(buffer, inner))
    /\ NoView
    /\ UNCHANGED <<panicked, alive, borrowed, pos, pushes, up_out, plain,
                   exhausted, since>>

CallPeekNth ==
    /\ NoneHanded
    /\ Callable
    /\ \E n \in 0..MaxN :
        /\ Called("peek_nth", n)
        /\ Returns(peek_nth(buffer, inner, n))
    /\ NoView
    /\ UNCHANGED <<panicked, alive, borrowed, pos, pushes, up_out, plain,
                   exhausted, since>>

CallNext ==
    /\ Handed(next(buffer, inner).ret)
    /\ Callable
    /\ Called("next", 0)
    /\ LET r == next(buffer, inner)
       IN  /\ Returns(r)
           /\ up_out' = up_out + Len(SelectSeq(r.ret, IsUp))
           /\ exhausted' = (exhausted \/ (r.ret = None /\ buffer = <<>>))
           /\ since' = IF r.ret = None \/ since = <<>> THEN <<>>
                       ELSE SubSeq(since, 1, Len(since) - 1)
    /\ NoView
    /\ UNCHANGED <<panicked, alive, borrowed, pos, pushes, plain>>

CallNth ==
    /\ Callable
    /\ \E n \in 0..MaxN :
        /\ Called("nth", n)
        /\ Returns(nth(buffer, inner, n))
        /\ Handed(nth(buffer, inner, n).ret)
    /\ plain' = FALSE
    /\ exhausted' = FALSE
    /\ since' = <<>>
    /\ NoView
    /\ UNCHANGED <<panicked, alive, borrowed, pos, pushes, up_out>>

CallNextBack ==
    /\ Handed(next_back(buffer, inner).ret)
    /\ Callable
    /\ Called("next_back", 0)
    /\ Returns(next_back(buffer, inner))
    /\ plain' = FALSE
    /\ exhausted' = FALSE
    /\ since' = <<>>
    /\ NoView
    /\ UNCHANGED <<panicked, alive, borrowed, pos, pushes, up_out>>

CallSizeHint ==
    /\ NoneHanded
    /\ Callable
    /\ Called("size_hint", 0)
    /\ ret' = size_hint(buffer, inner, kind)
    /\ panicked' \in {FALSE, size_hint_overflows(buffer, inner, kind)}
    /\ NoView
    /\ UNCHANGED <<buffer, inner, alive, borrowed, pos, pushes, up_out, plain,
                   exhausted, since>>

\* count(self): the adapter is consumed
CallCount ==
    /\ NoneHanded
    /\ Callable
    /\ Called("count", 0)
    /\ ret' = count(buffer, inner)
    /\ panicked' \in {FALSE, count_overflows(buffer, inner)}
    /\ alive' = FALSE
    /\ NoView
    /\ UNCHANGED <<buffer, inner, borrowed, pos, pushes, up_out, plain,
                   exhausted, since>>

\* last(self): the adapter is consumed
CallLast ==
    /\ NoneHanded
    /\ Callable
    /\ Called("last", 0)
    /\ ret' = last(buffer, inner)
    /\ alive' = FALSE
    /\ NoView
    /\ UNCHANGED <<buffer, inner, panicked, borrowed, pos, pushes, up_out, plain,
                   exhausted, since>>

\* len(&self), offered when the upstream is an ExactSizeIterator
CallLen ==
    /\ NoneHanded
    /\ Callable
    /\ kind = "exact"
    /\ Called("len", 0)
    /\ ret' = len(buffer, inner)
    /\ panicked' \in {FALSE, len_overflows(buffer, inner)}
    /\ NoView
    /\ UNCHANGED <<buffer, inner, alive, borrowed, pos, pushes, up_out, plain,
                   exhausted, since>>

\* lookahead(&mut self): a view at position 0
CallLookahead ==
    /\ NoneHanded
    /\ Callable
    /\ Called("lookahead", 0)
    /\ borrowed' = TRUE
    /\ pos' = 0
    /\ ret' = None
    /\ view_buffer' = buffer
    /\ view_inner' = inner
    /\ taken' = <<>>
    /\ UNCHANGED <<buffer, inner, panicked, alive, pushes, up_out, plain,
                   exhausted, since>>

\* LookaheadIterator::next
CallLookaheadNext ==
    /\ NoneHanded
    /\ alive /\ borrowed /\ ~panicked
    /\ pos < MaxPos
    /\ Called("lookahead_next", pos)
    /\ LET r == LookaheadIterator_next(buffer, inner, pos)
       IN  /\ Returns(r)
           /\ taken' = Append(taken, r.ret)
    /\ pos' = pos + 1
    /\ UNCHANGED <<panicked, alive, borrowed, pushes, up_out, plain, exhausted,
                   since, view_buffer, view_inner>>

\* the view goes out of scope and the borrow ends
DropLookahead ==
    /\ NoneHanded
    /\ alive /\ borrowed /\ ~panicked
    /\ Called("drop_lookahead", pos)
    /\ borrowed' = FALSE
    /\ pos' = 0
    /\ ret' = None
    /\ UNCHANGED <<buffer, inner, panicked, alive, pushes, up_out, plain,
                   exhausted, since, view_buffer, view_inner, taken>>

Next ==
    \/ CallPushBack
    \/ CallPeek
    \/ CallPeekNth
    \/ CallNext
    \/ CallNth
    \/ CallNextBack
    \/ CallSizeHint
    \/ CallCount
    \/ CallLast
    \/ CallLen
    \/ CallLookahead
    \/ CallLookaheadNext
    \/ DropLookahead

Spec == Init /\ [][Next]_vars

---------------------------------------------------------------------------
(* What consecutive next() calls return *)

\* the results of m consecutive next() calls
RECURSIVE pulls(_, _, _)
pulls(b, i, m) ==
    IF m = 0 THEN <<>>
    ELSE LET r == next(b, i)
         IN  <<r.ret>> \o pulls(r.buffer, r.inner, m - 1)

\* the adapter after m consecutive next() calls
RECURSIVE after_pulls(_, _, _)
after_pulls(b, i, m) ==
    IF m = 0 THEN [buffer |-> b, inner |-> i]
    ELSE LET r == next(b, i)
         IN  after_pulls(r.buffer, r.inner, m - 1)

\* more next() calls than any reachable adapter has items
DrainLen == MaxUp + MaxPush + 1

\* the results of next() until well after the first None
drain(b, i) == pulls(b, i, DrainLen)

\* the number of Some results before the first None
RECURSIVE remaining(_, _, _)
remaining(b, i, fuel) ==
    IF fuel = 0 THEN 0
    ELSE LET r == next(b, i)
         IN  IF r.ret = None THEN 0 ELSE 1 + remaining(r.buffer, r.inner, fuel - 1)

Remaining(b, i) == remaining(b, i, DrainLen)

\* the stamps of the pushed-back items of a buffer
PushStamps(b) == {b[j].tag[2] : j \in {j \in 1..Len(b) : IsPush(b[j])}}

SetMax(S) == CHOOSE x \in S : \A y \in S : y <= x

Reverse(q) == [j \in 1..Len(q) |-> q[Len(q) + 1 - j]]

---------------------------------------------------------------------------
(* C1 *)

\* C1: push/pull LIFO law.  When next() is called while the buffer holds
\* pushed-back items, it returns the most recently pushed of them (before any
\* earlier-pushed or peeked item); when the buffer is empty it returns what
\* the upstream's next() returns; and, as long as only push_back, next and the
\* peeks were called, the k-th upstream item that next() returns is the k-th
\* item of the source (upstream order, none skipped, none repeated).
C1_LifoLaw ==
    op.name = "next" =>
        /\ PushStamps(pre_buffer) # {} =>
              /\ ret # None
              /\ IsPush(ret[1])
              /\ ret[1].tag[2] = SetMax(PushStamps(pre_buffer))
              /\ ret[1] \notin {buffer[j] : j \in 1..Len(buffer)}
        /\ pre_buffer = <<>> =>
              /\ ret = inner_next(pre_inner).ret
              /\ inner = inner_next(pre_inner).inner
              /\ buffer = <<>>
        /\ (plain /\ ret # None /\ IsUp(ret[1])) =>
              /\ ret[1].tag[2] = up_out
              /\ ret[1] = source[up_out]

\* next() returned the later of two pushed-back items while the buffer also
\* held an item that a peek had pulled in
C1_Witness ==
    /\ op.name = "next"
    /\ Cardinality(PushStamps(pre_buffer)) >= 2
    /\ \E j \in 1..Len(pre_buffer) : IsUp(pre_buffer[j])
    /\ ret # None
    /\ IsPush(ret[1])

---------------------------------------------------------------------------
(* C2 *)

\* what C2 says of a call peek_nth(k) that took the adapter from (b0, i0) to
\* (b1, i1) and returned r
PeekPullConsistent(b0, i0, k, r, b1, i1) ==
    LET before == pulls(b0, i0, k + 1)
        after  == pulls(b1, i1, k + 1)
    IN  /\ r # None =>
              /\ \A j \in 1..(k + 1) : after[j] # None
              /\ after[k + 1] = r
              /\ \A j \in 1..k : after[j] = before[j]
        /\ r = None => (Remaining(b0, i0) < k + 1 /\ Remaining(b1, i1) < k + 1)

\* C2: peek/pull consistency.  After peek_nth(k) (peek() is peek_nth(0))
\* returned Some(v), the next k+1 next() calls all return Some, the (k+1)-th
\* returns v and the first k return what they would have returned without the
\* peek; after it returned None fewer than k+1 items remain to be pulled.
C2_PeekPullConsistency ==
    op.name \in {"peek_nth", "peek"} =>
        PeekPullConsistent(pre_buffer, pre_inner, op.arg, ret, buffer, inner)

\* peek_nth(k), k >= 1, returned an item it had to pull from upstream past
\* a pushed-back item
C2_Witness ==
    /\ op.name = "peek_nth"
    /\ op.arg >= 1
    /\ ret # None
    /\ PushStamps(pre_buffer) # {}
    /\ Len(buffer) > Len(pre_buffer)

---------------------------------------------------------------------------
(* C3 *)

\* C3: peek idempotence.  In the state a peek_nth(k) call leaves, a second
\* peek_nth(k) returns the same result (the same item, or None again) and
\* leaves buffer and upstream unchanged.
C3_PeekIdempotence ==
    op.name = "peek_nth" =>
        LET again == peek_nth(buffer, inner, op.arg)
        IN  /\ again.ret = ret
            /\ again.buffer = buffer
            /\ again.inner = inner

\* peek_nth(k) pulled items from upstream and returned one, and the state it
\* left is one where peek_nth(k) can be called again
C3_Witness ==
    /\ op.name = "peek_nth"
    /\ op.arg >= 1
    /\ ret # None
    /\ Len(buffer) > Len(pre_buffer)
    /\ Callable

---------------------------------------------------------------------------
(* C4 *)

\* a lookahead view is live, or was just dropped
HasView == borrowed \/ op.name = "drop_lookahead"

\* C4: lookahead non-consumption.  The m results a lookahead view has returned
\* are the results of the first m next() calls on the adapter as it was when
\* the view was created (None where fewer items remained); while the view
\* lives and when it is dropped, draining the adapter with next() yields the
\* sequence it would have yielded had the view never been created; dropping
\* the view changes neither buffer nor upstream.
C4_LookaheadNonConsumption ==
    /\ HasView =>
          /\ taken = pulls(view_buffer, view_inner, Len(taken))
          /\ drain(buffer, inner) = drain(view_buffer, view_inner)
    /\ op.name = "drop_lookahead" => (buffer = pre_buffer /\ inner = pre_inner)

\* a view created on a non-empty buffer returned two items, pulling from
\* upstream, and was dropped
C4_Witness ==
    /\ op.name = "drop_lookahead"
    /\ Len(taken) >= 2
    /\ taken[2] # None
    /\ view_buffer # <<>>
    /\ Len(buffer) > Len(view_buffer)

---------------------------------------------------------------------------
(* C5 *)

\* C5: exhaustion stability.  Once next() has returned None on an empty
\* buffer, the upstream stays exhausted and, after j push_back calls whose
\* items were not yet returned, the next j next() calls return those items,
\* the most recent first, and the call after them returns None; with j = 0,
\* next() keeps returning None.
C5_ExhaustionStability ==
    exhausted =>
        /\ inner = <<>>
        /\ pulls(buffer, inner, Len(since) + 1)
             = [j \in 1..Len(since) |-> Some(since[Len(since) + 1 - j])] \o <<None>>

\* after the exhausting None two items were pushed back and next() has
\* returned the later one
C5_Witness ==
    /\ exhausted
    /\ op.name = "next"
    /\ ret # None
    /\ Len(since) = 1
    /\ ret[1].tag[2] > since[1].tag[2]

---------------------------------------------------------------------------
(* C6 *)

\* C6: skip semantics.  nth(n) returns what the last of n+1 consecutive
\* next() calls would have returned, and leaves the adapter so that further
\* next() calls return what they would return after those n+1 calls.
C6_SkipSemantics ==
    op.name = "nth" =>
        LET n == op.arg
            a == after_pulls(pre_buffer, pre_inner, n + 1)
        IN  /\ ret = pulls(pre_buffer, pre_inner, n + 1)[n + 1]
            /\ drain(buffer, inner) = drain(a.buffer, a.inner)

\* nth(n) skipped the whole non-empty buffer and at least one upstream item,
\* and returned an item
C6_Witness ==
    /\ op.name = "nth"
    /\ pre_buffer # <<>>
    /\ op.arg > Len(pre_buffer)
    /\ ret # None

---------------------------------------------------------------------------
(* C7 *)

---------------------------------------------------------------------------
(* C8 *)

---------------------------------------------------------------------------
(* C9 *)

\* C9: last() returns the final item the upstream still holds, whatever the
\* buffer holds, and None when the upstream is exhausted, even with a
\* non-empty buffer.
C9_LastIgnoresBuffer ==
    op.name = "last" =>
        ret = IF pre_inner = <<>> THEN None ELSE Some(pre_inner[Len(pre_inner)])

\* last() returned None although count() is positive: the buffer holds an
\* item a peek pulled in and a pushed-back item, the upstream is exhausted
C9_Witness ==
    /\ op.name = "last"
    /\ ret = None
    /\ count(pre_buffer, pre_inner) > 0
    /\ \E j \in 1..Len(pre_buffer) : IsUp(pre_buffer[j])
    /\ \E j \in 1..Len(pre_buffer) : IsPush(pre_buffer[j])

---------------------------------------------------------------------------
(* C10 *)

\* C10: reverse-pull ordering.  next_back() returns the upstream's reverse
\* pull and leaves the buffer as it was whenever the upstream holds an item;
\* with the upstream exhausted it removes and returns the buffer item at the
\* front of the deque, the one forward pulls would have returned last; it
\* returns None only when upstream and buffer are both empty.
C10_ReversePull ==
    op.name = "next_back" =>
        /\ pre_inner # <<>> =>
              /\ ret = Some(pre_inner[Len(pre_inner)])
              /\ inner = SubSeq(pre_inner, 1, Len(pre_inner) - 1)
              /\ buffer = pre_buffer
        /\ (pre_inner = <<>> /\ pre_buffer # <<>>) =>
              /\ ret = pulls(pre_buffer, pre_inner, Len(pre_buffer))[Len(pre_buffer)]
              /\ ret = Some(pre_buffer[1])
              /\ buffer = Tail(pre_buffer)
              /\ inner = <<>>
        /\ ret = None <=> (pre_inner = <<>> /\ pre_buffer = <<>>)

\* next_back() fell back to a buffer of two or more items
C10_Witness ==
    /\ op.name = "next_back"
    /\ pre_inner = <<>>
    /\ Len(pre_buffer) >= 2
    /\ ret # None

---------------------------------------------------------------------------
(* C11 *)

Min(a, b) == IF a <= b THEN a ELSE b

---------------------------------------------------------------------------
(* C12 *)

\* the items as Some results, in order
Somes(q) == [j \in 1..Len(q) |-> Some(q[j])]

\* C12: no rollback on a failed peek.  When peek_nth(n) returns None, the
\* upstream is exhausted, every item the call pulled from it is in the
\* buffer, in arrival order behind the items buffered before, and next()
\* then returns what it would have returned without the failed peek.
C12_FailedPeekKeepsItems ==
    (op.name = "peek_nth" /\ ret = None) =>
        /\ inner = <<>>
        /\ buffer = Reverse(pre_inner) \o pre_buffer
        /\ pulls(buffer, inner, Len(buffer))
             = Somes(Reverse(pre_buffer)) \o Somes(pre_inner)
        /\ drain(buffer, inner) = drain(pre_buffer, pre_inner)

\* a peek_nth past the end pulled the upstream's last items into a buffer
\* that already held an item, and returned None
C12_Witness ==
    /\ op.name = "peek_nth"
    /\ ret = None
    /\ pre_buffer # <<>>
    /\ pre_inner # <<>>
    /\ Len(buffer) = Len(pre_buffer) + Len(pre_inner)

---------------------------------------------------------------------------
(* C13 *)

\* the upstream after m calls of its next()
RECURSIVE inner_after(_, _)
inner_after(i, m) == IF m = 0 THEN i ELSE inner_after(inner_next(i).inner, m - 1)

\* C13: the upstream is pulled only to cover a shortfall.  push_back leaves
\* the upstream alone; next() leaves it alone when the buffer is non-empty
\* and leaves it as one upstream next() does when the buffer is empty;
\* peek_nth(n) on a buffer of L items leaves upstream and buffer alone when
\* n < L and, when n >= L and it succeeds, takes exactly n+1-L items from the
\* upstream and puts them behind the buffered items, in arrival order.
C13_PullsOnlyShortfall ==
    LET L == Len(pre_buffer)
        n == op.arg
    IN  /\ op.name = "push_back" => inner = pre_inner
        /\ op.name = "next" =>
              /\ pre_buffer # <<>> => inner = pre_inner
              /\ pre_buffer = <<>> => inner = inner_after(pre_inner, 1)
        /\ (op.name = "peek_nth" /\ n < L) =>
              (inner = pre_inner /\ buffer = pre_buffer)
        /\ (op.name = "peek_nth" /\ n >= L /\ ret # None) =>
              /\ Len(pre_inner) - Len(inner) = n + 1 - L
              /\ inner = inner_after(pre_inner, n + 1 - L)
              /\ pulls(buffer, inner, Len(buffer))
                   = Somes(Reverse(pre_buffer))
                       \o Somes(SubSeq(pre_inner, 1, n + 1 - L))

\* peek_nth(n) succeeded by pulling an item behind a buffered item, and
\* left the upstream's following item where it was
C13_Witness ==
    /\ op.name = "peek_nth"
    /\ ret # None
    /\ pre_buffer # <<>>
    /\ op.arg >= Len(pre_buffer)
    /\ inner # <<>>

---------------------------------------------------------------------------
(* C14 *)

\* C14: buffer conservation.  The items of the buffer are distinct; each is
\* an item of the upstream source that a peek pulled in, or a pushed-back
\* item, and none of them has been returned; an item enters the buffer only
\* by a peek (from the upstream) or by push_back, and leaves it only by
\* next(), next_back() or nth(); no item is both in the buffer and still
\* upstream; no item is returned twice.
C14_BufferConservation ==
    /\ Cardinality(Tags(buffer)) = Len(buffer)
    /\ \A j \in 1..Len(buffer) :
          \/ /\ IsUp(buffer[j])
             /\ buffer[j].tag[2] \in 1..Len(source)
             /\ buffer[j] = source[buffer[j].tag[2]]
          \/ /\ IsPush(buffer[j])
             /\ buffer[j].tag[2] \in 1..pushes
    /\ Tags(buffer) \cap returned = {}
    /\ Tags(buffer) \cap Tags(inner) = {}
    /\ Tags(inner) \cap returned = {}
    /\ ~twice
    /\ \A t \in Tags(buffer) \ Tags(pre_buffer) :
          \/ /\ t[1] = "up"
             /\ op.name \in {"peek", "peek_nth", "lookahead_next"}
             /\ t \in Tags(pre_inner)
          \/ /\ t[1] = "push"
             /\ op.name = "push_back"
             /\ t = op.arg.tag
    /\ op.name \notin {"next", "next_back", "nth"} => Tags(pre_buffer) \subseteq Tags(buffer)

\* two items were returned and the buffer holds a peeked item and a
\* pushed-back item
C14_Witness ==
    /\ Cardinality(returned) >= 2
    /\ \E j \in 1..Len(buffer) : IsUp(buffer[j])
    /\ \E j \in 1..Len(buffer) : IsPush(buffer[j])

---------------------------------------------------------------------------
(* C15 *)

\* C15: lookahead stepping.  A view starts at position 0; its j-th next()
\* returns what peek_nth(j-1) returns on the adapter at that moment and takes
\* the position from j-1 to j; once a call has returned None, every later
\* call on the view returns None.
C15_LookaheadStepping ==
    /\ op.name = "lookahead" => (pos = 0 /\ taken = <<>>)
    /\ borrowed => pos = Len(taken)
    /\ op.name = "lookahead_next" =>
          LET j == Len(taken)
              p == peek_nth(pre_buffer, pre_inner, j - 1)
          IN  /\ op.arg = j - 1
              /\ pos = j
              /\ ret = p.ret
              /\ taken[j] = ret
              /\ buffer = p.buffer
              /\ inner = p.inner
    /\ HasView =>
          \A j \in 1..Len(taken) : \A k \in j..Len(taken) :
              taken[j] = None => taken[k] = None

\* a view returned an item, then None, then None again
C15_Witness ==
    /\ op.name = "lookahead_next"
    /\ Len(taken) = 3
    /\ taken[1] # None
    /\ taken[2] = None
    /\ taken[3] = None

---------------------------------------------------------------------------
(* C16 *)

\* C16: a lookahead view only grows the buffer.  Each next() of a view
\* leaves the buffered items where they were, in order, and adds the items
\* it pulls from the upstream behind them (at the deque's front, the latest
\* pulled first); from the creation of the view to its drop the buffer never
\* gets shorter and keeps the items it held.
C16_LookaheadOnlyGrows ==
    /\ op.name = "lookahead_next" =>
          LET m == Len(pre_inner) - Len(inner)
          IN  /\ m >= 0
              /\ Len(buffer) = Len(pre_buffer) + m
              /\ inner = SubSeq(pre_inner, m + 1, Len(pre_inner))
              /\ buffer = Reverse(SubSeq(pre_inner, 1, m)) \o pre_buffer
    /\ HasView =>
          LET m == Len(buffer) - Len(view_buffer)
          IN  /\ m >= 0
              /\ buffer = Reverse(SubSeq(view_inner, 1, m)) \o view_buffer

\* a view created on a non-empty buffer was stepped past it, pulled from the
\* upstream, and was dropped
C16_Witness ==
    /\ op.name = "drop_lookahead"
    /\ view_buffer # <<>>
    /\ Len(buffer) > Len(view_buffer)
    /\ Len(taken) > Len(view_buffer)

---------------------------------------------------------------------------
(* C17 *)

\* the upstream `0..usize::MAX`: an ExactSizeIterator of usize::MAX items,
\* whose size_hint is (usize::MAX, Some(usize::MAX))
WideSource == [k \in 1..UsizeMax |-> Item(k, <<"up", k>>)]

\* PushBackIterator::from(0..usize::MAX)
InitOverflow ==
    /\ source = WideSource
    /\ kind = "exact"
    /\ buffer = <<>>
    /\ inner = source
    /\ panicked = FALSE
    /\ alive = TRUE
    /\ borrowed = FALSE
    /\ pos = 0
    /\ op = [name |-> "from", arg |-> 0]
    /\ ret = None
    /\ pre_buffer = <<>>
    /\ pre_inner = source
    /\ pushes = 0
    /\ up_out = 0
    /\ plain = TRUE
    /\ exhausted = FALSE
    /\ since = <<>>
    /\ view_buffer = <<>>
    /\ view_inner = <<>>
    /\ taken = <<>>
    /\ returned = {}
    /\ twice = FALSE

\* the calls that matter to the sums: filling and emptying the buffer, and
\* the three methods that add the buffer length to an upstream number
NextOverflow ==
    \/ CallPushBack
    \/ CallPeekNth
    \/ CallNext
    \/ CallSizeHint
    \/ CallLen
    \/ CallCount

SpecOverflow == InitOverflow /\ [][NextOverflow]_vars

\* C17: no call aborts on usize arithmetic, and size_hint() and len() return
\* the upstream's bounds plus the buffer length, not a wrapped-around sum,
\* also when the upstream's bound is usize::MAX and items were pushed back.
C17_NoFatalArithmetic ==
    /\ ~panicked
    /\ op.name = "size_hint" =>
          LET h == inner_size_hint(inner, kind)
          IN  /\ ret[1] = h[1] + Len(buffer)
              /\ h[2] # None => ret[2] = Some(h[2][1] + Len(buffer))
    /\ op.name = "len" => ret = Len(buffer) + inner_len(inner)

---------------------------------------------------------------------------
(* C18 *)

\* the remaining items as one sequence: the buffer from its forward-pull end
\* (the deque's back) to its far end, then what the upstream still holds
Logical(b, i) == Reverse(b) \o i

\* C18: double-ended consistency.  next() removes and returns the first item
\* of the logical sequence, next_back() its last item, and each returns None
\* only on an empty sequence, which it leaves empty; push_back puts its item
\* first; the peeks leave the sequence as it is.  So every call that returns
\* an item shortens the sequence by exactly that item, and the two ends
\* never cross.
C18_DoubleEnded ==
    LET was == Logical(pre_buffer, pre_inner)
        now == Logical(buffer, inner)
    IN  /\ op.name = "next" =>
              IF was = <<>> THEN ret = None /\ now = <<>>
              ELSE ret = Some(Head(was)) /\ now = Tail(was)
        /\ op.name = "next_back" =>
              IF was = <<>> THEN ret = None /\ now = <<>>
              ELSE /\ ret = Some(was[Len(was)])
                   /\ now = SubSeq(was, 1, Len(was) - 1)
        /\ op.name = "push_back" => now = <<op.arg>> \o was
        /\ op.name \in {"peek", "peek_nth"} => now = was
        /\ Cardinality(Tags(now)) = Len(now)
        /\ Tags(now) \cap returned = {}

\* after next() had returned an upstream item, next_back() took the far end
\* of a buffer holding a peeked and a pushed-back item
C18_Witness ==
    /\ op.name = "next_back"
    /\ pre_inner = <<>>
    /\ \E j \in 1..Len(pre_buffer) : IsUp(pre_buffer[j])
    /\ \E j \in 1..Len(pre_buffer) : IsPush(pre_buffer[j])
    /\ up_out >= 1
    /\ ret # None

---------------------------------------------------------------------------
(* C19 *)

\* the pushed-back item with the smallest stamp
OldestPushed(b) ==
    CHOOSE it \in {b[j] : j \in 1..Len(b)} :
        /\ IsPush(it)
        /\ \A other \in {b[j] : j \in 1..Len(b)} :
              IsPush(other) => it.tag[2] <= other.tag[2]

\* C19 as stated: with the upstream exhausted and the buffer non-empty,
\* next_back() removes the oldest pushed-back item still in the buffer.
C19_OldestPushed ==
    (op.name = "next_back" /\ pre_inner = <<>> /\ pre_buffer # <<>>) =>
        /\ PushStamps(pre_buffer) # {}
        /\ ret = Some(OldestPushed(pre_buffer))

\* C19, amended: with the upstream exhausted and the buffer non-empty,
\* next_back() removes the item at the deque's front: the upstream item
\* pulled in last by a peek when the buffer holds a peeked item, and the
\* oldest pushed-back item only when the buffer holds pushed-back items alone.
C19_FrontOfDeque ==
    (op.name = "next_back" /\ pre_inner = <<>> /\ pre_buffer # <<>>) =>
        LET ups == {pre_buffer[j].tag[2] :
                        j \in {j \in 1..Len(pre_buffer) : IsUp(pre_buffer[j])}}
        IN  /\ ret # None
            /\ ret[1] = pre_buffer[1]
            /\ buffer = Tail(pre_buffer)
            /\ ups # {} => (IsUp(ret[1]) /\ ret[1].tag[2] = SetMax(ups))
            /\ ups = {} => ret[1] = OldestPushed(pre_buffer)

\* next_back() on an exhausted upstream returned a peeked item although the
\* buffer held a pushed-back item
C19_Witness ==
    /\ op.name = "next_back"
    /\ pre_inner = <<>>
    /\ PushStamps(pre_buffer) # {}
    /\ ret # None
    /\ IsUp(ret[1])

====
